---- MODULE Spec2Model ----
(***************************************************************************)
(* The AI Tools Management API (src/main.py): a relational table of tools, *)
(* a table of search history, and a vector index that mirrors the tools.   *)
(* Every handler is one action of the sequential specifications; the       *)
(* concurrent specification splits the writers at their store calls.       *)
(***************************************************************************)
EXTENDS Integers, Sequences, FiniteSets, TLC

VARIABLES
    tools,           \* rows of table "tools" (a set of records)
    search_history,  \* rows of table "search_history", in insertion order
    points,          \* points of the vector collection "tools"
    id_seq,          \* last value of the serial primary key of "tools"
    uuid_seq,        \* number of uuid4() values drawn so far
    clock,           \* datetime.utcnow(), in ticks
    resp,            \* the last request and its HTTP response
    client,          \* what the caller has recorded of its own requests
    inflight         \* requests in progress (concurrent specification only)

vars == <<tools, search_history, points, id_seq, uuid_seq, clock, resp, client, inflight>>

\* Bounds of a run.  Inserts, updates and searches stop once the clock has
\* been read MaxClock times where every endpoint is served, MaxCrudClock
\* times where only some are.
MaxClock == 2
MaxCrudClock == 3

\* Field(..., max_length=200) of ToolCreate.name and ToolUpdate.name
NAME_MAX_LENGTH == 200
\* Field(default=5, ge=1, le=50) of SearchQuery.limit
LIMIT_GE == 1
LIMIT_LE == 50

(***************************************************************************)
(* Values.  A JSON value that may be null is None or Some(v).              *)
(***************************************************************************)
None == <<>>
Some(v) == <<v>>

RECURSIVE Rep(_, _)
Rep(s, n) ==
    IF n = 0 THEN ""
    ELSE IF n = 1 THEN s
    ELSE Rep(s, n \div 2) \o Rep(s, n - (n \div 2))

Min(a, b) == IF a < b THEN a ELSE b
Abs(a) == IF a < 0 THEN -a ELSE a

\* str(uuid.uuid4()): the n-th identifier drawn; no two draws are equal.
uuid4(n) == <<"uuid4", n>>

Fields == {"name", "description", "tags", "tool_metadata"}

(***************************************************************************)
(* Request validation (pydantic models).                                   *)
(***************************************************************************)
\* ToolCreate: name and description are required strings with a minimum
\* length, tags is a list when given, tool_metadata may be null.
ToolCreateValid(body) ==
    /\ "name" \in DOMAIN body
    /\ body.name # None
    /\ Len(body.name[1]) >= 1
    /\ Len(body.name[1]) <= NAME_MAX_LENGTH
    /\ "description" \in DOMAIN body
    /\ body.description # None
    /\ Len(body.description[1]) >= 1
    /\ ("tags" \in DOMAIN body => body.tags # None)

\* ToolCreate with its defaults filled in (default_factory=list / dict).
ToolCreate(body) ==
    [name |-> body.name,
     description |-> body.description,
     tags |-> IF "tags" \in DOMAIN body THEN body.tags ELSE Some(<<>>),
     tool_metadata |-> IF "tool_metadata" \in DOMAIN body
                       THEN body.tool_metadata ELSE Some({})]

\* ToolUpdate: every field is Optional; only a name that is a string is
\* constrained (1..200 characters).
ToolUpdateValid(body) ==
    "name" \in DOMAIN body =>
        \/ body.name = None
        \/ /\ Len(body.name[1]) >= 1
           /\ Len(body.name[1]) <= NAME_MAX_LENGTH

\* SearchQuery: query of at least one character, limit in 1..50.
SearchQueryValid(query, limit) ==
    /\ Len(query) >= 1
    /\ limit >= LIMIT_GE
    /\ limit <= LIMIT_LE

\* response_model=ToolResponse: name, description, tags and tool_metadata
\* must not be null, or the framework answers 500.
ToolResponseValid(row) ==
    /\ row.name # None
    /\ row.description # None
    /\ row.tags # None
    /\ row.tool_metadata # None

(***************************************************************************)
(* Helper functions.                                                       *)
(***************************************************************************)
RECURSIVE Join(_)
Join(tags) ==
    IF Len(tags) = 0 THEN ""
    ELSE IF Len(tags) = 1 THEN tags[1]
    ELSE tags[1] \o ", " \o Join(Tail(tags))

\* f"{name}. {description}. Tags: {tags_str}"
tool_to_text(name, description, tags) ==
    LET str(x) == IF x = None THEN "None" ELSE x[1]
        tags_str == IF tags = None THEN "" ELSE Join(tags[1])
    IN  str(name) \o ". " \o str(description) \o ". Tags: " \o tags_str

\* embedding_model.encode(text): a deterministic function of the text.
create_embedding(text) == Len(text) % 5

\* Cosine similarity of two embeddings, as the index scores a hit.
Score(query_vector, vector) == 4 - Abs(query_vector - vector)

(***************************************************************************)
(* The relational store.                                                   *)
(***************************************************************************)
\* db.query(Tool).filter(Tool.uuid == tool_uuid).first()
QueryTool(rows, tool_uuid) == {r \in rows : r.uuid = tool_uuid}

HasTool(rows, tool_uuid) == QueryTool(rows, tool_uuid) # {}

FirstTool(rows, tool_uuid) == CHOOSE r \in rows : r.uuid = tool_uuid

\* A Tool(...) built without the tags of the request.
NewTool_NoTags(tool_uuid, tool, id, now) ==
    [id |-> id,
     uuid |-> tool_uuid,
     name |-> tool.name,
     description |-> tool.description,
     tags |-> Some(<<>>),
     tool_metadata |-> tool.tool_metadata,
     created_at |-> now,
     updated_at |-> now]

\* Tool(...); db.add; db.commit; db.refresh
NewTool(tool_uuid, tool, id, now) ==
    [id |-> id,
     uuid |-> tool_uuid,
     name |-> tool.name,
     description |-> tool.description,
     tags |-> tool.tags,
     tool_metadata |-> tool.tool_metadata,
     created_at |-> now,
     updated_at |-> now]

\* An update that puts the fields not sent back to the defaults of an
\* Insert: no tags, no metadata.
SetAttrs_Defaults(db_tool, update_data, now) ==
    [f \in DOMAIN db_tool |->
        IF f \in DOMAIN update_data THEN update_data[f]
        ELSE IF f = "tags" THEN Some(<<>>)
        ELSE IF f = "tool_metadata" THEN Some({})
        ELSE IF f = "updated_at" THEN now
        ELSE db_tool[f]]

\* An update that is never flushed: only updated_at is written.
SetAttrs_Dropped(db_tool, update_data, now) ==
    [db_tool EXCEPT !.updated_at = now]

\* for field, value in update_data.items(): setattr(db_tool, field, value)
\* db_tool.updated_at = datetime.utcnow()
SetAttrs(db_tool, update_data, now) ==
    [f \in DOMAIN db_tool |->
        IF f \in DOMAIN update_data THEN update_data[f]
        ELSE IF f = "updated_at" THEN now
        ELSE db_tool[f]]

(***************************************************************************)
(* The vector index.                                                       *)
(***************************************************************************)
\* payload={...} of the PointStruct built by insert_tool and update_tool
Payload(db_tool) ==
    [name |-> db_tool.name,
     description |-> db_tool.description,
     tags |-> db_tool.tags,
     metadata |-> db_tool.tool_metadata,
     db_id |-> db_tool.id]

PointStruct(db_tool) ==
    [id |-> db_tool.uuid,
     vector |-> create_embedding(
                    tool_to_text(db_tool.name, db_tool.description, db_tool.tags)),
     payload |-> Payload(db_tool)]

\* qdrant_client.upsert: overwrite by id
Upsert(pts, point) == {p \in pts : p.id # point.id} \cup {point}

\* A delete that selects no point.
DeletePoint_None(pts, tool_uuid) == pts

\* qdrant_client.delete(points_selector=[tool_uuid])
DeletePoint(pts, tool_uuid) == {p \in pts : p.id # tool_uuid}

\* qdrant_client.search: the limit nearest points by descending score; the
\* order of equal scores is the index's choice.
Rankings(pts, query_vector, limit) ==
    LET n == Min(limit, Cardinality(pts))
        sc(p) == Score(query_vector, p.vector)
    IN  {h \in [1..n -> pts] :
            /\ \A i, j \in 1..n : i # j => h[i] # h[j]
            /\ \A i, j \in 1..n : i < j => sc(h[i]) >= sc(h[j])
            /\ \A p \in pts : (\A i \in 1..n : h[i] # p) =>
                   \A i \in 1..n : sc(h[i]) >= sc(p)}

\* The hits as search_tools reads them: result.id and result.score
ScoredPoints(hits, query_vector) ==
    [i \in 1..Len(hits) |->
        [id |-> hits[i].id, score |-> Score(query_vector, hits[i].vector)]]


(***************************************************************************)
(* Requests the callers send.                                              *)
(***************************************************************************)
\* Bodies of POST /tools/: two that validate and four that do not.  The
\* first is in the manner of test_api.py; the second leaves tags and
\* tool_metadata to their defaults.
CreateBodies ==
    {[name |-> Some("Numpy"), description |-> Some("array library"),
      tags |-> Some(<<"python", "array">>)],
     [name |-> Some(Rep("x", NAME_MAX_LENGTH)), description |-> Some("long name")],
     [name |-> Some(""), description |-> Some("array library")],
     [name |-> Some(Rep("x", NAME_MAX_LENGTH + 1)), description |-> Some("d")],
     [name |-> Some("Numpy"), description |-> Some("")],
     [name |-> Some("Numpy"), description |-> Some("d"), tags |-> None]}

\* Bodies of PUT /tools/{uuid}: partial, possibly null; the last does not
\* validate.
UpdateBodies ==
    {[tags |-> Some(<<"new">>)],
     [name |-> Some("Flask"), description |-> Some("")],
     [name |-> None, tool_metadata |-> Some({<<"version", "1">>})],
     [name |-> Some(Rep("x", NAME_MAX_LENGTH + 1))]}

SearchQueries == {"", "python arrays"}
SearchLimits == {LIMIT_GE - 1, LIMIT_GE, LIMIT_GE + 1, LIMIT_LE + 1}

\* skip and limit of GET /tools/, limit of GET /search/history
PageSkips == {0, 1, 2}
PageLimits == {0, 1, 2}
HistoryLimits == {1, 50}

\* Identifiers a caller may name: every one drawn so far and one never drawn.
DrawnUuids == {uuid4(n) : n \in 1..uuid_seq}
KnownUuids == DrawnUuids \cup {uuid4(0)}

\* Two request threads, for the requests that run concurrently.
Workers == {"w1", "w2"}
Idle == [pc |-> "idle"]

(***************************************************************************)
(* Initial state: empty tables, empty collection.                          *)
(***************************************************************************)
Init ==
    /\ tools = {}
    /\ search_history = <<>>
    /\ points = {}
    /\ id_seq = 0
    /\ uuid_seq = 0
    /\ clock = 0
    /\ resp = [op |-> "none", status |-> 0]
    /\ client = [inserted |-> <<>>, touched |-> {}, deleted |-> {}]
    /\ inflight = [w \in Workers |-> Idle]

\* The caller's record: the tools it inserted (uuid returned and body sent),
\* those of them it has since sent an Update or a Delete for, and the uuids
\* whose Delete was answered with success.
Mine(tool_uuid) ==
    {tool_uuid} \cap {client.inserted[i].uuid : i \in 1..Len(client.inserted)}

(***************************************************************************)
(* Handlers, one request at a time.  vec_ok says whether the vector-index  *)
(* call of the request succeeds; a request that makes no such call is      *)
(* taken with vec_ok only.                                                 *)
(***************************************************************************)
\* GET /
root ==
    /\ resp' = [op |-> "root", status |-> 200]
    /\ UNCHANGED <<tools, search_history, points, id_seq, uuid_seq, clock, client, inflight>>

\* POST /tools/
insert_tool(body, vec_ok) ==
    /\ UNCHANGED <<search_history, inflight>>
    /\ IF ~ToolCreateValid(body)
       THEN /\ vec_ok
            /\ resp' = [op |-> "insert", status |-> 422]
            /\ UNCHANGED <<tools, points, id_seq, uuid_seq, clock, client>>
       ELSE /\ LET tool == ToolCreate(body)
                   tool_uuid == uuid4(uuid_seq + 1)
                   db_tool == NewTool(tool_uuid, tool, id_seq + 1, clock)
               IN  /\ uuid_seq' = uuid_seq + 1
                   /\ id_seq' = id_seq + 1
                   /\ clock' = clock + 1
                   /\ tools' = tools \cup {db_tool}
                   /\ IF ~vec_ok
                      THEN /\ UNCHANGED <<points, client>>
                           /\ resp' = [op |-> "insert", status |-> 500,
                                       detail |-> "Error inserting tool"]
                      ELSE /\ points' = Upsert(points, PointStruct(db_tool))
                           /\ IF ToolResponseValid(db_tool)
                              THEN /\ resp' = [op |-> "insert", status |-> 201,
                                               body |-> db_tool]
                                   /\ client' = [client EXCEPT !.inserted =
                                          Append(@, [uuid |-> tool_uuid, sent |-> body])]
                              ELSE /\ resp' = [op |-> "insert", status |-> 500,
                                               detail |-> "Internal Server Error"]
                                   /\ UNCHANGED client

\* The order in which a query with no ORDER BY returns the rows: any.
RECURSIVE ScanOrders(_)
ScanOrders(rows) ==
    IF rows = {} THEN {<<>>}
    ELSE UNION {{<<r>> \o s : s \in ScanOrders(rows \ {r})} : r \in rows}

\* db.query(Tool).offset(skip).limit(limit).all()
OffsetLimit(order, skip, limit) ==
    SubSeq(order, skip + 1, Min(skip + limit, Len(order)))

\* GET /tools/
get_all_tools(skip, limit) ==
    /\ UNCHANGED <<tools, search_history, points, id_seq, uuid_seq, clock, client, inflight>>
    /\ \E order \in ScanOrders(tools) :
          LET page == OffsetLimit(order, skip, limit)
          IN  IF \A i \in 1..Len(page) : ToolResponseValid(page[i])
              THEN resp' = [op |-> "get_all", skip |-> skip, limit |-> limit,
                            status |-> 200, body |-> page]
              ELSE resp' = [op |-> "get_all", skip |-> skip, limit |-> limit,
                            status |-> 500, detail |-> "Internal Server Error"]

\* GET /tools/{tool_uuid}
get_tool(tool_uuid) ==
    /\ UNCHANGED <<tools, search_history, points, id_seq, uuid_seq, clock, client, inflight>>
    /\ IF ~HasTool(tools, tool_uuid)
       THEN resp' = [op |-> "get", uuid |-> tool_uuid, status |-> 404,
                     detail |-> "Tool not found"]
       ELSE LET tool == FirstTool(tools, tool_uuid)
            IN  IF ToolResponseValid(tool)
                THEN resp' = [op |-> "get", uuid |-> tool_uuid, status |-> 200,
                              body |-> tool]
                ELSE resp' = [op |-> "get", uuid |-> tool_uuid, status |-> 500,
                              detail |-> "Internal Server Error"]

\* PUT /tools/{tool_uuid}
update_tool(tool_uuid, body, vec_ok) ==
    /\ UNCHANGED <<search_history, id_seq, uuid_seq, inflight>>
    /\ IF ~ToolUpdateValid(body)
       THEN /\ vec_ok
            /\ resp' = [op |-> "update", uuid |-> tool_uuid, status |-> 422]
            /\ UNCHANGED <<tools, points, clock, client>>
       ELSE /\ client' = [client EXCEPT !.touched = @ \cup Mine(tool_uuid)]
            /\ IF ~HasTool(tools, tool_uuid)
               THEN /\ vec_ok
                    /\ resp' = [op |-> "update", uuid |-> tool_uuid, status |-> 404,
                                detail |-> "Tool not found"]
                    /\ UNCHANGED <<tools, points, clock>>
               ELSE /\ clock' = clock + 1
                    /\ LET old == FirstTool(tools, tool_uuid)
                           db_tool == SetAttrs(old, body, clock)
                       IN  /\ tools' = (tools \ {old}) \cup {db_tool}
                           /\ IF ~vec_ok
                              THEN /\ UNCHANGED points
                                   /\ resp' = [op |-> "update", uuid |-> tool_uuid,
                                               status |-> 500,
                                               detail |-> "Error updating tool"]
                              ELSE /\ points' = Upsert(points, PointStruct(db_tool))
                                   /\ IF ToolResponseValid(db_tool)
                                      THEN resp' = [op |-> "update", uuid |-> tool_uuid,
                                                    sent |-> body, status |-> 200,
                                                    body |-> db_tool]
                                      ELSE resp' = [op |-> "update", uuid |-> tool_uuid,
                                                    status |-> 500,
                                                    detail |-> "Internal Server Error"]

\* A delete that is never committed.
DeleteRow_Uncommitted(rows, tool_uuid) == rows

\* db.delete(db_tool); db.commit()
DeleteRow(rows, tool_uuid) == rows \ QueryTool(rows, tool_uuid)

\* DELETE /tools/{tool_uuid}
delete_tool(tool_uuid, vec_ok) ==
    /\ UNCHANGED <<search_history, id_seq, uuid_seq, clock, inflight>>
    /\ IF ~HasTool(tools, tool_uuid)
       THEN /\ vec_ok
            /\ resp' = [op |-> "delete", uuid |-> tool_uuid, status |-> 404,
                        detail |-> "Tool not found"]
            /\ client' = [client EXCEPT !.touched = @ \cup Mine(tool_uuid)]
            /\ UNCHANGED <<tools, points>>
       ELSE /\ tools' = DeleteRow(tools, tool_uuid)
            /\ IF ~vec_ok
               THEN /\ UNCHANGED points
                    /\ resp' = [op |-> "delete", uuid |-> tool_uuid, status |-> 500,
                                detail |-> "Error deleting tool"]
                    /\ client' = [client EXCEPT !.touched = @ \cup Mine(tool_uuid)]
               ELSE /\ points' = DeletePoint(points, tool_uuid)
                    /\ resp' = [op |-> "delete", uuid |-> tool_uuid, status |-> 200,
                                body |-> [message |-> "Tool deleted successfully",
                                          uuid |-> tool_uuid]]
                    /\ client' = [client EXCEPT !.touched = @ \cup Mine(tool_uuid),
                                                !.deleted = @ \cup {tool_uuid}]

\* The loop leaving at the first hit with no row (break for skip).
RECURSIVE Hydrate_Break(_, _)
Hydrate_Break(scored, rows) ==
    IF scored = <<>> THEN <<>>
    ELSE IF HasTool(rows, Head(scored).id)
         THEN <<[tool |-> CHOOSE r \in rows : r.uuid = Head(scored).id,
                 score |-> Head(scored).score]>> \o Hydrate_Break(Tail(scored), rows)
         ELSE <<>>

\* The loop of search_tools over the hits: a hit with a row yields a result,
\* a hit with no row yields nothing.
RECURSIVE Hydrate(_, _)
Hydrate(scored, rows) ==
    IF scored = <<>> THEN <<>>
    ELSE IF HasTool(rows, Head(scored).id)
         THEN <<[tool |-> FirstTool(rows, Head(scored).id),
                 score |-> Head(scored).score]>> \o Hydrate(Tail(scored), rows)
         ELSE Hydrate(Tail(scored), rows)

\* tool_data_list: one {uuid, name, score} per result
ToolDataList(results) ==
    [i \in 1..Len(results) |->
        [uuid |-> results[i].tool.uuid,
         name |-> results[i].tool.name,
         score |-> results[i].score]]

\* A history entry recorded before the results are gathered.
HistoryEntry_Empty(id, query, results, now) ==
    [id |-> id, query |-> query, results |-> <<>>, timestamp |-> now]

\* SearchHistory(query=..., results=tool_data_list, timestamp=utcnow())
HistoryEntry(id, query, results, now) ==
    [id |-> id, query |-> query, results |-> ToolDataList(results), timestamp |-> now]

\* POST /tools/search
search_tools(query, limit, vec_ok) ==
    /\ UNCHANGED <<tools, points, id_seq, uuid_seq, client, inflight>>
    /\ IF ~SearchQueryValid(query, limit)
       THEN /\ vec_ok
            /\ resp' = [op |-> "search", status |-> 422]
            /\ UNCHANGED <<search_history, clock>>
       ELSE IF ~vec_ok
       THEN /\ resp' = [op |-> "search", status |-> 500,
                        detail |-> "Error searching tools"]
            /\ UNCHANGED <<search_history, clock>>
       ELSE /\ \E hits \in Rankings(points, create_embedding(query), limit) :
                  LET scored == ScoredPoints(hits, create_embedding(query))
                      results == Hydrate(scored, tools)
                  IN  /\ search_history' = Append(search_history,
                             HistoryEntry(Len(search_history) + 1, query, results, clock))
                      /\ clock' = clock + 1
                      /\ IF \A i \in 1..Len(results) : ToolResponseValid(results[i].tool)
                         THEN resp' = [op |-> "search", query |-> query, limit |-> limit,
                                       hits |-> scored, status |-> 200, body |-> results]
                         ELSE resp' = [op |-> "search", query |-> query, limit |-> limit,
                                       hits |-> scored, status |-> 500,
                                       detail |-> "Internal Server Error"]

\* order_by(SearchHistory.timestamp.desc()).limit(limit)
RecentFirst(entries, limit) ==
    {SubSeq(s, 1, Min(limit, Len(s))) : s \in
        {s \in [1..Len(entries) -> {entries[i] : i \in 1..Len(entries)}] :
            /\ \A i, j \in 1..Len(entries) : i # j => s[i] # s[j]
            /\ \A i, j \in 1..Len(entries) : i < j => s[i].timestamp >= s[j].timestamp}}

\* GET /search/history
get_search_history(limit) ==
    /\ UNCHANGED <<tools, search_history, points, id_seq, uuid_seq, clock, client, inflight>>
    /\ \E history \in RecentFirst(search_history, limit) :
          resp' = [op |-> "history", limit |-> limit, status |-> 200, body |-> history]

\* GET /health: never raises; 200 either way
health_check(vec_ok) ==
    /\ UNCHANGED <<tools, search_history, points, id_seq, uuid_seq, clock, client, inflight>>
    /\ resp' = [op |-> "health", status |-> 200,
                body |-> IF vec_ok THEN "healthy" ELSE "unhealthy"]

(***************************************************************************)
(* Update and Delete split at their store calls, for concurrent requests.  *)
(* Each thread has its own session: db_tool is the thread's copy of the    *)
(* row.  No store is unavailable here.                                     *)
(***************************************************************************)
ValidUpdateBodies == {body \in UpdateBodies : ToolUpdateValid(body)}

\* Updates accepted and not yet committed: each will read the clock once.
PendingUpdates ==
    Cardinality({w \in Workers : inflight[w].pc \in {"update_query", "update_commit"}})

Reply(w, status) ==
    inflight' = [inflight EXCEPT ![w] = [pc |-> "done", status |-> status]]

\* A thread takes a PUT /tools/{tool_uuid}.
start_update(w, tool_uuid, body) ==
    /\ inflight[w].pc \in {"idle", "done"}
    /\ inflight' = [inflight EXCEPT ![w] = [pc |-> "update_query", op |-> "update",
                                            uuid |-> tool_uuid, body |-> body]]
    /\ UNCHANGED <<tools, search_history, points, id_seq, uuid_seq, clock, resp, client>>

\* db_tool = db.query(Tool).filter(Tool.uuid == tool_uuid).first()
update_query(w) ==
    /\ inflight[w].pc = "update_query"
    /\ IF ~HasTool(tools, inflight[w].uuid)
       THEN Reply(w, 404)
       ELSE inflight' = [inflight EXCEPT ![w] =
                [pc |-> "update_commit", op |-> "update", uuid |-> inflight[w].uuid,
                 body |-> inflight[w].body,
                 db_tool |-> FirstTool(tools, inflight[w].uuid)]]
    /\ UNCHANGED <<tools, search_history, points, id_seq, uuid_seq, clock, resp, client>>

\* The attributes of the thread's copy that the setattr loop changed: the
\* flush writes these columns and updated_at, and no other.
Dirty(db_tool, update_data) ==
    [f \in {g \in DOMAIN update_data : update_data[g] # db_tool[g]} |-> update_data[f]]

\* setattr ...; db.commit(): UPDATE tools SET <the fields changed> WHERE id = ...
\* A row deleted meanwhile makes the flush raise; the handler answers 500.
update_commit(w) ==
    /\ inflight[w].pc = "update_commit"
    /\ clock' = clock + 1
    /\ IF ~HasTool(tools, inflight[w].uuid)
       THEN /\ Reply(w, 500)
            /\ UNCHANGED tools
       ELSE LET cur == FirstTool(tools, inflight[w].uuid)
            IN  /\ tools' = (tools \ {cur}) \cup {SetAttrs(cur, Dirty(inflight[w].db_tool, inflight[w].body), clock)}
                /\ inflight' = [inflight EXCEPT ![w].pc = "update_refresh"]
    /\ UNCHANGED <<search_history, points, id_seq, uuid_seq, resp, client>>

\* db.refresh(db_tool): reads the row again; raises if it is gone.
update_refresh(w) ==
    /\ inflight[w].pc = "update_refresh"
    /\ IF ~HasTool(tools, inflight[w].uuid)
       THEN Reply(w, 500)
       ELSE inflight' = [inflight EXCEPT ![w].pc = "update_upsert",
                                         ![w].db_tool = FirstTool(tools, inflight[w].uuid)]
    /\ UNCHANGED <<tools, search_history, points, id_seq, uuid_seq, clock, resp, client>>

\* qdrant_client.upsert(...) from the thread's copy of the row; return db_tool
update_upsert(w) ==
    /\ inflight[w].pc = "update_upsert"
    /\ points' = Upsert(points, PointStruct(inflight[w].db_tool))
    /\ Reply(w, IF ToolResponseValid(inflight[w].db_tool) THEN 200 ELSE 500)
    /\ UNCHANGED <<tools, search_history, id_seq, uuid_seq, clock, resp, client>>

\* A thread takes a DELETE /tools/{tool_uuid}.
start_delete(w, tool_uuid) ==
    /\ inflight[w].pc \in {"idle", "done"}
    /\ inflight' = [inflight EXCEPT ![w] = [pc |-> "delete_query", op |-> "delete",
                                            uuid |-> tool_uuid]]
    /\ UNCHANGED <<tools, search_history, points, id_seq, uuid_seq, clock, resp, client>>

\* A Delete that, finding no row, removes the point before answering 404.
delete_query_Purge(w) ==
    /\ inflight[w].pc = "delete_query"
    /\ IF \A r \in tools : r.uuid # inflight[w].uuid
       THEN /\ inflight' = [inflight EXCEPT ![w] = [pc |-> "done", status |-> 404]]
            /\ points' = {p \in points : p.id # inflight[w].uuid}
       ELSE /\ inflight' = [inflight EXCEPT ![w].pc = "delete_commit"]
            /\ UNCHANGED points
    /\ UNCHANGED <<tools, search_history, id_seq, uuid_seq, clock, resp, client>>

\* db_tool = db.query(Tool).filter(Tool.uuid == tool_uuid).first()
delete_query(w) ==
    /\ inflight[w].pc = "delete_query"
    /\ IF ~HasTool(tools, inflight[w].uuid)
       THEN Reply(w, 404)
       ELSE inflight' = [inflight EXCEPT ![w].pc = "delete_commit"]
    /\ UNCHANGED <<tools, search_history, points, id_seq, uuid_seq, clock, resp, client>>

\* db.delete(db_tool); db.commit(): a row already gone is only warned about.
delete_commit(w) ==
    /\ inflight[w].pc = "delete_commit"
    /\ tools' = DeleteRow(tools, inflight[w].uuid)
    /\ inflight' = [inflight EXCEPT ![w].pc = "delete_points"]
    /\ UNCHANGED <<search_history, points, id_seq, uuid_seq, clock, resp, client>>

\* qdrant_client.delete(points_selector=[tool_uuid]); return the message
delete_points(w) ==
    /\ inflight[w].pc = "delete_points"
    /\ points' = DeletePoint(points, inflight[w].uuid)
    /\ Reply(w, 200)
    /\ UNCHANGED <<tools, search_history, id_seq, uuid_seq, clock, resp, client>>

\* Requests one at a time; any vector-index call may fail.
Next ==
    \/ root
    \/ /\ clock < MaxClock
       /\ \E body \in CreateBodies, vec_ok \in BOOLEAN : insert_tool(body, vec_ok)
    \/ \E skip \in PageSkips, limit \in PageLimits : get_all_tools(skip, limit)
    \/ \E u \in KnownUuids : get_tool(u)
    \/ /\ clock < MaxClock
       /\ \E u \in KnownUuids, body \in UpdateBodies, vec_ok \in BOOLEAN :
              update_tool(u, body, vec_ok)
    \/ \E u \in KnownUuids, vec_ok \in BOOLEAN : delete_tool(u, vec_ok)
    \/ /\ clock < MaxClock
       /\ \E query \in SearchQueries, limit \in SearchLimits, vec_ok \in BOOLEAN :
              search_tools(query, limit, vec_ok)
    \/ \E limit \in HistoryLimits : get_search_history(limit)
    \/ \E vec_ok \in BOOLEAN : health_check(vec_ok)

Spec == Init /\ [][Next]_vars

\* The tool endpoints alone, one request at a time; any vector-index call
\* may fail.
NextCrud ==
    \/ /\ clock < MaxCrudClock
       /\ \E body \in CreateBodies, vec_ok \in BOOLEAN : insert_tool(body, vec_ok)
    \/ \E u \in KnownUuids : get_tool(u)
    \/ /\ clock < MaxCrudClock
       /\ \E u \in KnownUuids, body \in UpdateBodies, vec_ok \in BOOLEAN :
              update_tool(u, body, vec_ok)
    \/ \E u \in KnownUuids, vec_ok \in BOOLEAN : delete_tool(u, vec_ok)

SpecCrud == Init /\ [][NextCrud]_vars

\* Insert, Update and Delete, one request at a time; no store call fails.
NextOk ==
    \/ /\ clock < MaxCrudClock
       /\ \E body \in CreateBodies : insert_tool(body, TRUE)
    \/ /\ clock < MaxCrudClock
       /\ \E u \in KnownUuids, body \in UpdateBodies : update_tool(u, body, TRUE)
    \/ \E u \in KnownUuids : delete_tool(u, TRUE)

SpecOk == Init /\ [][NextOk]_vars

\* The writers and Search, one request at a time; any vector-index call may
\* fail.
NextSearch ==
    \/ /\ clock < MaxCrudClock
       /\ \E body \in CreateBodies, vec_ok \in BOOLEAN : insert_tool(body, vec_ok)
    \/ /\ clock < MaxCrudClock
       /\ \E u \in KnownUuids, body \in UpdateBodies, vec_ok \in BOOLEAN :
              update_tool(u, body, vec_ok)
    \/ \E u \in KnownUuids, vec_ok \in BOOLEAN : delete_tool(u, vec_ok)
    \/ /\ clock < MaxCrudClock
       /\ \E query \in SearchQueries, limit \in SearchLimits, vec_ok \in BOOLEAN :
              search_tools(query, limit, vec_ok)

SpecSearch == Init /\ [][NextSearch]_vars

\* Two threads serving Updates and Deletes step by step; an Insert, whose
\* uuid no other request can name yet, is taken whole.
NextRace ==
    \/ /\ clock + PendingUpdates < MaxCrudClock
       /\ \E body \in CreateBodies : insert_tool(body, TRUE)
    \/ /\ clock + PendingUpdates < MaxCrudClock
       /\ \E w \in Workers, u \in DrawnUuids, body \in ValidUpdateBodies :
              start_update(w, u, body)
    \/ \E w \in Workers : update_query(w)
    \/ \E w \in Workers : update_commit(w)
    \/ \E w \in Workers : update_refresh(w)
    \/ \E w \in Workers : update_upsert(w)
    \/ \E w \in Workers, u \in DrawnUuids : start_delete(w, u)
    \/ \E w \in Workers : delete_query(w)
    \/ \E w \in Workers : delete_commit(w)
    \/ \E w \in Workers : delete_points(w)

SpecRace == Init /\ [][NextRace]_vars

(***************************************************************************)
(* Properties.                                                             *)
(***************************************************************************)
\* C1.  Dual-store consistency: after any sequence of Insert, Update and
\* Delete requests, one at a time and with no store call failing, the
\* vector index holds exactly the uuids of the rows, and each point's
\* payload carries its row's name, description, tags, tool_metadata and id.
C1_DualStoreConsistent ==
    /\ {p.id : p \in points} = {r.uuid : r \in tools}
    /\ \A r \in tools : \A p \in points :
          p.id = r.uuid =>
              /\ p.payload.name = r.name
              /\ p.payload.description = r.description
              /\ p.payload.tags = r.tags
              /\ p.payload.metadata = r.tool_metadata
              /\ p.payload.db_id = r.id

\* An updated tool whose point carries the new tags, after a Delete of
\* another tool has succeeded.
C1_Witness ==
    /\ client.deleted # {}
    /\ \E r \in tools :
          /\ r.updated_at > r.created_at
          /\ r.tags = Some(<<"new">>)
          /\ \E p \in points : p.id = r.uuid /\ p.payload.tags = r.tags

\* C2.  Insert round-trip: the uuids returned by successful Inserts are
\* pairwise different, and a GetOne on such a uuid, sent before any Update
\* or Delete of it, answers 200 with the name, description, tags and
\* tool_metadata that were sent (defaults where none was sent).
C2_InsertRoundTrip ==
    /\ \A i, j \in 1..Len(client.inserted) :
          i # j => client.inserted[i].uuid # client.inserted[j].uuid
    /\ \A i \in 1..Len(client.inserted) :
          (/\ resp.op = "get"
           /\ resp.uuid = client.inserted[i].uuid
           /\ resp.uuid \notin client.touched)
          => /\ resp.status = 200
             /\ \A f \in Fields : resp.body[f] = ToolCreate(client.inserted[i].sent)[f]

\* A GetOne of the second tool inserted, with no Update or Delete of it yet.
C2_Witness ==
    /\ Len(client.inserted) >= 2
    /\ resp.op = "get"
    /\ resp.status = 200
    /\ resp.uuid = client.inserted[2].uuid
    /\ resp.uuid \notin client.touched

\* C3.  Partial update frame: a successful Update leaves every field it was
\* not sent, and the row's id, uuid and created_at, as they were, and leaves
\* every other row as it was.
C3_PartialUpdateFrame ==
    [][(resp'.op = "update" /\ resp'.status = 200) =>
          \E old \in tools, new \in tools' :
              /\ old.uuid = resp'.uuid
              /\ new.uuid = resp'.uuid
              /\ \A f \in Fields \ DOMAIN resp'.sent : new[f] = old[f]
              /\ new.id = old.id
              /\ new.created_at = old.created_at
              /\ tools' \ {new} = tools \ {old}]_vars

\* A successful Update of tags alone, with another tool in the table.
C3_Witness ==
    /\ resp.op = "update"
    /\ resp.status = 200
    /\ DOMAIN resp.sent = {"tags"}
    /\ Cardinality(tools) >= 2

\* C4.  Delete outcome: once a Delete of a uuid was answered with success,
\* every GetOne on that uuid answers 404; and a Delete on a uuid with no row
\* answers 404.
C4_DeleteOutcome ==
    [][/\ (resp'.op = "get" /\ resp'.uuid \in client.deleted) => resp'.status = 404
       /\ (resp'.op = "delete" /\ ~HasTool(tools, resp'.uuid)) => resp'.status = 404]_vars

\* A GetOne answered 404 on a uuid whose Delete had succeeded, with inserts
\* made in between.
C4_Witness ==
    /\ resp.op = "get"
    /\ resp.uuid \in client.deleted
    /\ resp.status = 404
    /\ tools # {}

\* C5.  Stored-field validity: every row has a name of 1 to 200 characters
\* and a non-empty description, neither of them null.
C5_StoredFieldsValid ==
    \A r \in tools :
        /\ r.name # None
        /\ Len(r.name[1]) >= 1
        /\ Len(r.name[1]) <= NAME_MAX_LENGTH
        /\ r.description # None
        /\ Len(r.description[1]) >= 1

\* The positions of the hits whose uuid has a row.
Hydrated(hits, rows) == {i \in 1..Len(hits) : HasTool(rows, hits[i].id)}

\* C6.  Search result: a successful Search with limit k in 1..50 returns
\* the hits of the vector index (the at most k best, by descending score)
\* that have a row, in the order and with the scores of the hits, each with
\* its row; so at most k results in non-increasing score order.
C6_SearchResult ==
    (resp.op = "search" /\ resp.status = 200) =>
        LET hits == resp.hits
            body == resp.body
            qv == create_embedding(resp.query)
            kept == Hydrated(hits, tools)
            rank(i) == Cardinality({j \in kept : j <= i})
        IN  /\ resp.limit >= LIMIT_GE
            /\ resp.limit <= LIMIT_LE
            /\ Len(hits) = Min(resp.limit, Cardinality(points))
            /\ \A i, j \in 1..Len(hits) : i # j => hits[i].id # hits[j].id
            /\ \A i \in 1..Len(hits) :
                  \E p \in points :
                      p.id = hits[i].id /\ hits[i].score = Score(qv, p.vector)
            /\ \A p \in points :
                  (\A i \in 1..Len(hits) : hits[i].id # p.id) =>
                      \A i \in 1..Len(hits) : hits[i].score >= Score(qv, p.vector)
            /\ \A i, j \in 1..Len(hits) : i < j => hits[i].score >= hits[j].score
            /\ Len(body) = Cardinality(kept)
            /\ \A i \in kept :
                  /\ body[rank(i)].tool \in tools
                  /\ body[rank(i)].tool.uuid = hits[i].id
                  /\ body[rank(i)].score = hits[i].score
            /\ Len(body) <= resp.limit
            /\ \A i, j \in 1..Len(body) : i < j => body[i].score >= body[j].score

\* A successful Search whose best hit has no row and is left out, the
\* next one being returned.
C6_Witness ==
    /\ resp.op = "search"
    /\ resp.status = 200
    /\ Len(resp.hits) = 2
    /\ ~HasTool(tools, resp.hits[1].id)
    /\ Len(resp.body) = 1
    /\ resp.body[1].tool.uuid = resp.hits[2].id

\* C7.  Search history: a successful Search appends exactly one entry, with
\* the query text and one {uuid, name, score} per result returned (at most
\* the limit), and leaves the earlier entries as they were; no other
\* request changes the history.
C7_HistoryAppendOnly ==
    [][/\ (resp'.op = "search" /\ resp'.status = 200) =>
             /\ Len(search_history') = Len(search_history) + 1
             /\ SubSeq(search_history', 1, Len(search_history)) = search_history
             /\ LET entry == search_history'[Len(search_history')]
                IN  /\ entry.query = resp'.query
                    /\ Len(entry.results) = Len(resp'.body)
                    /\ Len(entry.results) <= resp'.limit
                    /\ \A i \in 1..Len(resp'.body) :
                          entry.results[i] = [uuid |-> resp'.body[i].tool.uuid,
                                              name |-> resp'.body[i].tool.name,
                                              score |-> resp'.body[i].score]
       /\ resp'.op # "search" => search_history' = search_history]_vars

\* A successful Search that returned a tool, with its entry on record.
C7_Witness ==
    /\ resp.op = "search"
    /\ resp.status = 200
    /\ Len(resp.body) >= 1
    /\ Len(search_history) >= 1
    /\ Len(search_history[Len(search_history)].results) = Len(resp.body)

\* The rows in ascending primary-key order.
ByPrimaryKey(rows) ==
    CHOOSE s \in [1..Cardinality(rows) -> rows] :
        \A i, j \in 1..Cardinality(rows) : i < j => s[i].id < s[j].id

\* C8.  GetAll paging: GetAll(skip, limit) returns the rows at positions
\* [skip, skip + limit) of the rows in ascending primary-key order, cut at
\* the end of the table, and the empty list when skip is past the end.
C8_GetAllPaging ==
    (resp.op = "get_all" /\ resp.status = 200) =>
        resp.body = SubSeq(ByPrimaryKey(tools), resp.skip + 1,
                           Min(resp.skip + resp.limit, Cardinality(tools)))

\* C9 as claimed.  When the vector-index call of an Insert, Update or Delete
\* fails after the commit, the answer is 500, the relational change stays,
\* the vector index is unchanged; the Insert leaves a row with no point and
\* the Delete leaves a point with no row.
C9_PartialFailure_Claimed ==
    [][/\ resp'.op = "insert" =>
             \A body \in CreateBodies :
                 (ToolCreateValid(body) /\ insert_tool(body, FALSE)) =>
                     /\ resp'.status = 500
                     /\ points' = points
                     /\ \E r \in tools' :
                           /\ r.uuid = uuid4(uuid_seq')
                           /\ \A f \in Fields : r[f] = ToolCreate(body)[f]
                           /\ \A p \in points' : p.id # r.uuid
       /\ resp'.op = "update" =>
             \A body \in ValidUpdateBodies :
                 (HasTool(tools, resp'.uuid) /\ update_tool(resp'.uuid, body, FALSE)) =>
                     /\ resp'.status = 500
                     /\ points' = points
                     /\ \E r \in tools' :
                           /\ r.uuid = resp'.uuid
                           /\ \A f \in DOMAIN body : r[f] = body[f]
       /\ (resp'.op = "delete" /\ HasTool(tools, resp'.uuid)
              /\ delete_tool(resp'.uuid, FALSE)) =>
                 /\ resp'.status = 500
                 /\ points' = points
                 /\ ~HasTool(tools', resp'.uuid)
                 /\ \E p \in points' : p.id = resp'.uuid]_vars

\* C9 as amended.  The same, except that the Delete leaves a point with no
\* row only when the uuid had a point before the request.
C9_PartialFailure ==
    [][/\ resp'.op = "insert" =>
             \A body \in CreateBodies :
                 (ToolCreateValid(body) /\ insert_tool(body, FALSE)) =>
                     /\ resp'.status = 500
                     /\ points' = points
                     /\ \E r \in tools' :
                           /\ r.uuid = uuid4(uuid_seq')
                           /\ \A f \in Fields : r[f] = ToolCreate(body)[f]
                           /\ \A p \in points' : p.id # r.uuid
       /\ resp'.op = "update" =>
             \A body \in ValidUpdateBodies :
                 (HasTool(tools, resp'.uuid) /\ update_tool(resp'.uuid, body, FALSE)) =>
                     /\ resp'.status = 500
                     /\ points' = points
                     /\ \E r \in tools' :
                           /\ r.uuid = resp'.uuid
                           /\ \A f \in DOMAIN body : r[f] = body[f]
       /\ (resp'.op = "delete" /\ HasTool(tools, resp'.uuid)
              /\ delete_tool(resp'.uuid, FALSE)) =>
                 /\ resp'.status = 500
                 /\ points' = points
                 /\ ~HasTool(tools', resp'.uuid)
                 /\ ((\E p \in points : p.id = resp'.uuid)
                        => \E p \in points' : p.id = resp'.uuid)]_vars

\* A Delete answered 500 that left a point with no row, beside a row that a
\* failed Insert left with no point.
C9_Witness ==
    /\ resp.op = "delete"
    /\ resp.status = 500
    /\ \E p \in points : p.id = resp.uuid /\ ~HasTool(tools, p.id)
    /\ \E r \in tools : \A p \in points : p.id # r.uuid

\* The uuid has a point and no row.
Orphan(u) == (\E p \in points : p.id = u) /\ ~HasTool(tools, u)

\* No request on the uuid is past its lookup of the row.
Settled(u) ==
    \A w \in Workers :
        inflight[w].pc \in {"update_commit", "update_refresh", "update_upsert",
                            "delete_commit", "delete_points"}
        => inflight[w].uuid # u

Quiescent == \A w \in Workers : inflight[w].pc \in {"idle", "done"}

\* C10.  Concurrent writers: a point with no row, once no request on its
\* uuid is past the lookup of the row, stays a point with no row whatever
\* requests follow: no later Update or Delete of the uuid gets past its
\* lookup, and no Insert draws the uuid again.  (That two concurrent
\* requests, no store call failing, reach such a state is the witness.)
C10_DivergencePermanent ==
    [][\A u \in DrawnUuids :
          (Orphan(u) /\ Settled(u)) => (Orphan(u) /\ Settled(u))']_vars

\* An Update and a Delete of one uuid, both answered 200, with no request
\* in progress: the uuid has a point and no row.
C10_Witness ==
    /\ Quiescent
    /\ \A w \in Workers : inflight[w].pc = "done" /\ inflight[w].status = 200
    /\ \E u \in DrawnUuids : Orphan(u)

====
